---------------------------- MODULE Spec2Model ----------------------------
(***************************************************************************)
(* DanceMode: the choreography manager (src/dance_targets.py,              *)
(* DanceTargetManager) and the popper game (src/game.py, DanceModeGame).   *)
(*                                                                         *)
(* Time is counted in whole units.  The manager's unit is half a second    *)
(* (min_display_time 3.0 s = 6, move_timeout 5.0 s = 10, celebration_time  *)
(* 1.0 s = 2); the popper game's unit is a tenth of a second.  Positions   *)
(* are whole pixels, so a distance test compares squared distances, which  *)
(* agrees with math.sqrt on these magnitudes.  Fields that only feed the   *)
(* renderer (target_pulse, success_flash, miss_flash, left_hit_time,       *)
(* right_hit_time, particles, snowflakes, sprites, sounds) are not part of *)
(* the model: no engine decision reads them.                               *)
(***************************************************************************)
EXTENDS Integers, Sequences, FiniteSets, TLC

VARIABLES
    \* ---- DanceTargetManager fields (src/dance_targets.py:153-189)
    current_sequence,     \* <<>> (None) or <<moves>>
    current_move_index,
    move_timer,
    move_timeout,
    min_display_time,
    left_hand_hit,
    right_hand_hit,
    celebrating,
    celebration_timer,
    moves_completed,
    moves_missed,
    current_streak,
    best_streak,
    loop_count,
    max_loops,
    \* ---- the most recent update call: move_timer right after
    \* "self.move_timer += dt" (line 268), and the returned events
    elapsed,
    events,
    \* ---- observers of the manager's run (history of the emitted events)
    visit_hit,            \* 'hit' events of the move visit in progress
    visit_miss,           \* 'miss' events of the move visit in progress
    last_visit,           \* <<hits, misses>> of the visit concluded last, or <<>>
    visits_concluded,     \* move visits concluded since start_sequence
    complete_ticks,       \* ticks that emitted 'sequence_complete' since start_sequence
    \* ---- DanceModeGame fields (src/game.py:151-201) and run()'s locals
    running,              \* "init" before start(), "run" in the loop, "quit" after it
    frame_count,          \* kept modulo 2: the loop only reads frame_count % 2
    camera_ready,
    cached_players,       \* sequence of [left_hand, right_hand]
    width,
    height,
    theme,
    menu_selection,
    state,
    countdown_timer,
    game_timer,
    score,
    high_scores,
    targets,              \* sequence of Target records
    spawn_timers,
    stats,
    \* ---- observer of the popper round
    round_ticks,          \* _update_playing calls since _start_game
    \* ---- one call of check_hand_hit: its arguments and what it returned
    probe_hand,
    probe_target,
    probe_result,         \* <<>> before the call, <<returned value>> after it
    \* ---- a recorded run of the manager and its replay on a fresh manager
    trace,                \* the update calls of the first run: inputs and events
    replay_pos,           \* 0 while recording, else the next call to replay
    first_score           \* get_stats of the first run when the replay began

managerFields == <<current_sequence, current_move_index, move_timer, move_timeout,
                   min_display_time, left_hand_hit, right_hand_hit, celebrating,
                   celebration_timer, moves_completed, moves_missed, current_streak,
                   best_streak, loop_count, max_loops>>
callVars == <<elapsed, events>>
observers == <<visit_hit, visit_miss, last_visit, visits_concluded, complete_ticks>>
managerVars == <<managerFields, callVars, observers>>
roundFields == <<countdown_timer, game_timer, score, targets, spawn_timers, stats>>
gameVars == <<running, frame_count, camera_ready, cached_players, width, height,
              theme, menu_selection, state, high_scores, roundFields, round_ticks>>
probeVars == <<probe_hand, probe_target, probe_result>>
replayVars == <<trace, replay_pos, first_score>>
vars == <<managerVars, gameVars, probeVars, replayVars>>

\* ------------------------------------------------------------------------
\* Constants of the program
\* ------------------------------------------------------------------------
None == <<>>

ScreenWidth == 1280
ScreenHeight == 720
\* self.hit_radius = 80
HitRadius == 80
\* self.move_timeout = 5.0, in half seconds
DefaultMoveTimeout == 10
\* self.min_display_time = 3.0, in half seconds
DefaultMinDisplayTime == 6
\* self.celebration_time = 1.0, in half seconds
CelebrationTime == 2
\* self.max_loops = 2
DefaultMaxLoops == 2

\* ------------------------------------------------------------------------
\* Bounds of the model
\* ------------------------------------------------------------------------
\* update is called with ticks of 1..MaxDt half seconds
MaxDt == 6
\* update keeps being called until loop_count exceeds max_loops by this much
MaxExtraLoops == 2

DtSet == 1..MaxDt

\* ------------------------------------------------------------------------
\* DanceMove and DanceLibrary: targets as percentages of the screen
\* ------------------------------------------------------------------------
Move(l, r) == [left_hand_target |-> l, right_hand_target |-> r]

\* DanceLibrary.get_hokey_pokey: "Right In", "Left In", "Both Hands Up"
RightIn == Move(None, <<60, 50>>)
LeftIn == Move(<<40, 50>>, None)
BothHandsUp == Move(<<30, 20>>, <<70, 20>>)

\* the sequences start_sequence is called with
Library == { <<RightIn, LeftIn, BothHandsUp>>, <<BothHandsUp>> }

\* hand positions the pose source reports: absent, on the rim of the
\* "Left In"/"Right In" zone (distance exactly 80), inside a "Both Hands Up" zone
LeftHands == { None, <<512, 440>>, <<384, 144>> }
RightHands == { None, <<768, 440>>, <<896, 145>> }

NoEvents == [hit |-> FALSE, miss |-> FALSE, complete |-> FALSE,
             sequence_complete |-> FALSE, pop |-> FALSE]

\* ------------------------------------------------------------------------
\* DanceTargetManager
\* ------------------------------------------------------------------------
Moves == current_sequence[1]

HasSequence == current_sequence # None

\* get_current_move: the move at `idx`, None past the end
GetMove(idx) ==
    IF HasSequence /\ idx < Len(Moves) THEN <<Moves[idx + 1]>> ELSE None

\* int(fraction * screen size) of one target
ToPixels(t) == << (t[1] * ScreenWidth) \div 100, (t[2] * ScreenHeight) \div 100 >>

\* get_target_positions, left member
LeftTarget(idx) ==
    IF GetMove(idx) = None THEN None
    ELSE IF GetMove(idx)[1].left_hand_target = None THEN None
    ELSE ToPixels(GetMove(idx)[1].left_hand_target)

\* get_target_positions, right member
RightTarget(idx) ==
    IF GetMove(idx) = None THEN None
    ELSE IF GetMove(idx)[1].right_hand_target = None THEN None
    ELSE ToPixels(GetMove(idx)[1].right_hand_target)

\* variant of check_hand_hit that excludes the rim of the zone
CheckHandHitStrict(hand_pos, target_pos) ==
    IF hand_pos = None \/ target_pos = None THEN FALSE
    ELSE LET dx == hand_pos[1] - target_pos[1]
             dy == hand_pos[2] - target_pos[2]
         IN  dx * dx + dy * dy < HitRadius * HitRadius

\* check_hand_hit: sqrt(dx*dx + dy*dy) <= hit_radius
CheckHandHit(hand_pos, target_pos) ==
    IF hand_pos = None \/ target_pos = None THEN FALSE
    ELSE LET dx == hand_pos[1] - target_pos[1]
             dy == hand_pos[2] - target_pos[2]
         IN  dx * dx + dy * dy <= HitRadius * HitRadius

\* variant of NotYetHit that lets a set flag trigger again
NotYetHitAlways(flag) == TRUE

\* "and not self.left_hand_hit", "and not self.right_hand_hit"
NotYetHit(flag) == ~flag

\* variant of CanAdvance without the display floor
CanAdvanceAtOnce(timer) == TRUE

\* variant of CanAdvance that stops accepting once the timeout has passed
CanAdvanceBeforeTimeout(timer) == timer >= min_display_time /\ timer < move_timeout

\* can_advance = self.move_timer >= self.min_display_time
CanAdvance(timer) == timer >= min_display_time

\* variant of TimedOut that needs the timeout to be exceeded
TimedOutLate(timer) == timer > move_timeout

\* elif self.move_timer >= self.move_timeout
TimedOut(timer) == timer >= move_timeout

\* variant of CelebrationDone that needs the time to be exceeded
CelebrationDoneLate(timer) == timer > CelebrationTime

\* if self.celebration_timer >= self.celebration_time
CelebrationDone(timer) == timer >= CelebrationTime

\* left_done and right_done and can_advance
MoveSatisfied(left_done, right_done, can_advance) ==
    left_done /\ right_done /\ can_advance

\* self.current_streak += 1
StreakAfterHit(streak) == streak + 1

\* variant of BestStreakAfterHit that never records a streak
BestStreakAfterHitUnset(best, streak) == best

\* self.best_streak = max(self.best_streak, self.current_streak)
BestStreakAfterHit(best, streak) == IF streak > best THEN streak ELSE best

\* variant of StreakAfterMiss that keeps the streak
StreakAfterMissKept(streak) == streak

\* self.current_streak = 0
StreakAfterMiss(streak) == 0

\* if self.current_move_index >= len(self.current_sequence.moves)
SequenceExhausted(idx) == idx >= Len(Moves)

\* variant of LoopsDone that never ends the looping
LoopsDoneNever(loops) == FALSE

\* if self.loop_count >= self.max_loops
LoopsDone(loops) == loops >= max_loops

\* DanceTargetManager.__init__
ManagerInit ==
    /\ current_sequence = None
    /\ current_move_index = 0
    /\ move_timer = 0
    /\ move_timeout = DefaultMoveTimeout
    /\ min_display_time = DefaultMinDisplayTime
    /\ left_hand_hit = FALSE
    /\ right_hand_hit = FALSE
    /\ celebrating = FALSE
    /\ celebration_timer = 0
    /\ moves_completed = 0
    /\ moves_missed = 0
    /\ current_streak = 0
    /\ best_streak = 0
    /\ loop_count = 0
    /\ max_loops = DefaultMaxLoops
    /\ elapsed = 0
    /\ events = NoEvents
    /\ visit_hit = 0
    /\ visit_miss = 0
    /\ last_visit = <<>>
    /\ visits_concluded = 0
    /\ complete_ticks = 0

\* start_sequence(sequence)
StartSequence(sequence) ==
    /\ current_sequence' = <<sequence>>
    /\ current_move_index' = 0
    /\ move_timer' = 0
    /\ left_hand_hit' = FALSE
    /\ right_hand_hit' = FALSE
    /\ moves_completed' = 0
    /\ moves_missed' = 0
    /\ current_streak' = 0
    /\ loop_count' = 0
    /\ UNCHANGED <<move_timeout, min_display_time, celebrating, celebration_timer,
                   best_streak, max_loops>>
    /\ UNCHANGED callVars
    /\ visit_hit' = 0
    /\ visit_miss' = 0
    /\ last_visit' = <<>>
    /\ visits_concluded' = 0
    /\ complete_ticks' = 0

\* update, no sequence started: return events
UpdateIdle ==
    /\ events' = NoEvents
    /\ UNCHANGED elapsed
    /\ UNCHANGED managerFields
    /\ UNCHANGED observers

\* update while celebrating (lines 267-277); _next_move when the celebration ends
UpdateCelebrating(d) ==
    LET timer == celebration_timer + d
        inMove == current_move_index < Len(Moves)
    IN  /\ elapsed' = move_timer + d
        /\ IF CelebrationDone(timer)
            THEN /\ current_move_index' = current_move_index + 1
                 /\ move_timer' = 0
                 /\ left_hand_hit' = FALSE
                 /\ right_hand_hit' = FALSE
                 /\ celebrating' = FALSE
                 /\ celebration_timer' = 0
                 /\ events' = [NoEvents EXCEPT !.complete = TRUE]
                 /\ UNCHANGED <<current_sequence, move_timeout, min_display_time,
                                moves_completed, moves_missed, current_streak,
                                best_streak, loop_count, max_loops>>
                 /\ visit_hit' = 0
                 /\ visit_miss' = 0
                 /\ last_visit' = IF inMove THEN <<visit_hit, visit_miss>> ELSE last_visit
                 /\ visits_concluded' = IF inMove THEN visits_concluded + 1
                                                  ELSE visits_concluded
                 /\ UNCHANGED complete_ticks
            ELSE /\ move_timer' = move_timer + d
                 /\ celebration_timer' = timer
                 /\ events' = NoEvents
                 /\ UNCHANGED <<current_sequence, current_move_index, move_timeout,
                                min_display_time, left_hand_hit, right_hand_hit,
                                celebrating, moves_completed, moves_missed,
                                current_streak, best_streak, loop_count, max_loops>>
                 /\ UNCHANGED observers

\* variant of HandDone that waits for a hit on a hand without a target
HandDoneStrict(target, flag) == flag

\* left_done = (left_target is None) or self.left_hand_hit
HandDone(target, flag) == target = None \/ flag

\* update while a move is awaited (lines 267-268, 279-329)
UpdateAwaiting(d, lh, rh) ==
    LET timer == move_timer + d
        idx == current_move_index
        inMove == idx < Len(Moves)
        left_target == LeftTarget(idx)
        right_target == RightTarget(idx)
        left_pop == left_target # None /\ NotYetHit(left_hand_hit)
                        /\ CheckHandHit(lh, left_target)
        right_pop == right_target # None /\ NotYetHit(right_hand_hit)
                        /\ CheckHandHit(rh, right_target)
        lhit == left_hand_hit \/ left_pop
        rhit == right_hand_hit \/ right_pop
        left_done == HandDone(left_target, lhit)
        right_done == HandDone(right_target, rhit)
        hit == MoveSatisfied(left_done, right_done, CanAdvance(timer))
        miss == ~hit /\ TimedOut(timer)
        \* the index after _next_move on a miss
        idx1 == IF miss THEN idx + 1 ELSE idx
        exhausted == SequenceExhausted(idx1)
        loops == IF exhausted THEN loop_count + 1 ELSE loop_count
        done == exhausted /\ LoopsDone(loops)
    IN  /\ elapsed' = timer
        /\ current_move_index' = IF exhausted /\ ~done THEN 0 ELSE idx1
        /\ move_timer' = IF miss THEN 0 ELSE timer
        /\ left_hand_hit' = IF miss THEN FALSE ELSE lhit
        /\ right_hand_hit' = IF miss THEN FALSE ELSE rhit
        /\ celebrating' = hit
        /\ celebration_timer' = 0
        /\ moves_completed' = IF hit THEN moves_completed + 1 ELSE moves_completed
        /\ moves_missed' = IF miss THEN moves_missed + 1 ELSE moves_missed
        /\ current_streak' = IF hit THEN StreakAfterHit(current_streak)
                             ELSE IF miss THEN StreakAfterMiss(current_streak)
                             ELSE current_streak
        /\ best_streak' = IF hit THEN BestStreakAfterHit(best_streak,
                                                         StreakAfterHit(current_streak))
                          ELSE best_streak
        /\ loop_count' = loops
        /\ events' = [hit |-> hit, miss |-> miss, complete |-> FALSE,
                      sequence_complete |-> done, pop |-> left_pop \/ right_pop]
        /\ UNCHANGED <<current_sequence, move_timeout, min_display_time, max_loops>>
        /\ visit_hit' = IF miss THEN 0
                        ELSE IF hit /\ inMove THEN visit_hit + 1 ELSE visit_hit
        /\ visit_miss' = IF miss THEN 0 ELSE visit_miss
        /\ last_visit' = IF miss /\ inMove THEN <<visit_hit, visit_miss + 1>>
                         ELSE last_visit
        /\ visits_concluded' = IF miss /\ inMove THEN visits_concluded + 1
                               ELSE visits_concluded
        /\ complete_ticks' = IF done THEN complete_ticks + 1 ELSE complete_ticks

\* variant of Update without the celebration branch
UpdateWatchingHands(d, lh, rh) ==
    /\ IF ~HasSequence THEN UpdateIdle
       ELSE UpdateAwaiting(d, lh, rh)

\* update(dt, left_hand, right_hand)
Update(d, lh, rh) ==
    /\ IF ~HasSequence THEN UpdateIdle
       ELSE IF celebrating THEN UpdateCelebrating(d)
       ELSE UpdateAwaiting(d, lh, rh)

\* ------------------------------------------------------------------------
\* DanceModeGame: configuration tables (times in tenths of a second)
\* ------------------------------------------------------------------------
\* SPAWN_RATES.items() iterates in declaration order
Categories == <<"bauble", "elf", "santa", "grinch">>
CategorySet == {"bauble", "elf", "santa", "grinch"}

POINTS == [bauble |-> 5, elf |-> 50, santa |-> 100, grinch |-> -10]
SPAWN_RATES == [bauble |-> 10, elf |-> 40, santa |-> 200, grinch |-> 60]
LIFETIMES == [bauble |-> 80, elf |-> 30, santa |-> 30, grinch |-> 30]
\* pixels per second
SPEEDS == [bauble |-> 0, elf |-> 150, santa |-> 300, grinch |-> 150]
\* sizes = {...} in _spawn_target
SIZES == [bauble |-> 100, elf |-> 110, santa |-> 140, grinch |-> 120]

ThemeKeys == <<"christmas", "chanukkah", "kpop", "twirlywoos">>

DefaultWidth == 1280
DefaultHeight == 720
\* self.countdown_timer = 3.0
CountdownTime == 30
\* self.game_timer = 60.0
RoundTime == 600
\* margin = 80 in _spawn_target
SpawnMargin == 80
\* the wall inset of _update_targets
WallMargin == 50
\* hit_radius = 50 in _check_collisions
HandRadius == 50
\* if target.pop_timer > 0.3
FadeTime == 3
TicksPerSecond == 10

\* ------------------------------------------------------------------------
\* Bounds of the popper model
\* ------------------------------------------------------------------------
\* _update_playing is followed for this many ticks of a round
MaxRoundTicks == 3

\* clock.tick() / 1000 while the countdown runs: frames of 1 s
CountdownFrames == {10}

\* clock.tick() / 1000 while a round is played: frames of 0.3 s, 1 s, 5 s, 30 s
PlayFrames == {3, 10, 50, 300}

\* keys the player presses
Keys == {"ESCAPE", "SPACE", "2"}

\* random.randint(margin, width - margin), random.randint(margin, height - margin):
\* the centre of the play area and its far corner
SpawnPoints == { <<width \div 2, height \div 2>>,
                 <<width - SpawnMargin, height - SpawnMargin>> }

\* random.random() * 2 * pi: directions as (cos, sin) in fifths
Directions == { <<3, 4>>, <<-5, 0>> }

\* what detect_players returns: nobody; one player whose left hand is at
\* distance exactly 100 from the centre (60 right, 80 below); one player with
\* both hands close to the centre
Snapshots ==
    { <<>>,
      << [left_hand |-> <<DefaultWidth \div 2 + 60, DefaultHeight \div 2 + 80>>,
          right_hand |-> None] >>,
      << [left_hand |-> <<DefaultWidth \div 2 - 10, DefaultHeight \div 2>>,
          right_hand |-> <<DefaultWidth \div 2 + 10, DefaultHeight \div 2>>] >> }

\* ------------------------------------------------------------------------
\* DanceModeGame
\* ------------------------------------------------------------------------
ZeroStats == [c \in CategorySet |-> 0]

\* DanceModeGame.__init__
GameInit ==
    /\ running = "init"
    /\ frame_count = 0
    /\ camera_ready = FALSE
    /\ cached_players = <<>>
    /\ width = DefaultWidth
    /\ height = DefaultHeight
    /\ theme = "christmas"
    /\ menu_selection = 0
    /\ state = "menu"
    /\ countdown_timer = CountdownTime
    /\ game_timer = RoundTime
    /\ score = 0
    /\ high_scores = [t \in {ThemeKeys[i] : i \in 1..4} |-> 0]
    /\ targets = <<>>
    /\ spawn_timers = ZeroStats
    /\ stats = ZeroStats
    /\ round_ticks = 0

\* start(): the camera comes up or not, then run()
StartGame ==
    /\ running = "init"
    /\ running' = "run"
    /\ camera_ready' \in BOOLEAN
    /\ UNCHANGED <<frame_count, cached_players, width, height, theme,
                   menu_selection, state, high_scores, roundFields, round_ticks>>
    /\ UNCHANGED <<managerVars, probeVars, replayVars>>

\* _handle_keydown(key); a False return ends the loop
HandleKeydown(key) ==
    /\ running = "run"
    /\ running' = IF key = "ESCAPE" /\ state = "menu" THEN "quit" ELSE "run"
    /\ state' =
         IF key = "ESCAPE" THEN "menu"
         ELSE IF key = "SPACE" /\ state = "menu" THEN "title"
         ELSE IF key = "SPACE" /\ state = "title" THEN "countdown"
         ELSE IF key = "SPACE" /\ state = "results" THEN "title"
         ELSE IF key \in {"1", "2", "3", "4"} /\ state = "menu" THEN "title"
         ELSE state
    /\ theme' =
         IF key = "SPACE" /\ state = "menu" THEN ThemeKeys[menu_selection + 1]
         ELSE IF key = "1" /\ state = "menu" THEN "christmas"
         ELSE IF key = "2" /\ state = "menu" THEN "chanukkah"
         ELSE IF key = "3" /\ state = "menu" THEN "kpop"
         ELSE IF key = "4" /\ state = "menu" THEN "twirlywoos"
         ELSE theme
    /\ menu_selection' =
         IF state # "menu" THEN menu_selection
         ELSE IF key = "LEFT" THEN (menu_selection - 1) % 4
         ELSE IF key = "RIGHT" THEN (menu_selection + 1) % 4
         ELSE IF key = "1" THEN 0
         ELSE IF key = "2" THEN 1
         ELSE IF key = "3" THEN 2
         ELSE IF key = "4" THEN 3
         ELSE menu_selection
    \* _start_countdown
    /\ countdown_timer' = IF key = "SPACE" /\ state = "title" THEN CountdownTime
                          ELSE countdown_timer
    /\ UNCHANGED <<frame_count, camera_ready, cached_players, width, height,
                   high_scores, game_timer, score, targets, spawn_timers, stats,
                   round_ticks>>
    /\ UNCHANGED <<managerVars, probeVars, replayVars>>

\* the hands _check_collisions collects, players in order, left before right
RECURSIVE Hands(_)
Hands(players) ==
    IF players = <<>> THEN <<>>
    ELSE (IF Head(players).left_hand # None THEN <<Head(players).left_hand>> ELSE <<>>)
         \o (IF Head(players).right_hand # None THEN <<Head(players).right_hand>> ELSE <<>>)
         \o Hands(Tail(players))

\* dist < hit_radius + target.size / 2, on squared distances
InPopRange(hand, target) ==
    LET dx == hand[1] - target.x
        dy == hand[2] - target.y
        r == HandRadius + target.size \div 2
    IN  dx * dx + dy * dy < r * r

\* the inner loop "for hand in hands: ... _pop_target(target); break":
\* how many times it calls _pop_target on `target`
RECURSIVE PopCalls(_, _)
PopCalls(target, hands) ==
    IF hands = <<>> THEN 0
    ELSE IF InPopRange(Head(hands), target) THEN 1
    ELSE PopCalls(target, Tail(hands))

\* variant of SkipPopped that tests popped targets again
SkipPoppedNever(target) == FALSE

\* if target.popped: continue
SkipPopped(target) == target.popped

\* _pop_target's effect on the target, called n >= 1 times
Popped(target, n) ==
    [target EXCEPT !.popped = TRUE, !.pop_timer = 0, !.pops = @ + n]

\* _pop_target calls of one _check_collisions on one target
CallsOn(target, hands) ==
    IF SkipPopped(target) THEN 0 ELSE PopCalls(target, hands)

\* _check_collisions: the _pop_target calls on each target of the list; no
\* players, no check
Calls(list, players) ==
    [i \in 1..Len(list) |->
        IF players = <<>> THEN 0 ELSE CallsOn(list[i], Hands(players))]

\* the list after _check_collisions made `calls`
CollideAll(list, calls) ==
    [i \in 1..Len(list) |->
        IF calls[i] = 0 THEN list[i] ELSE Popped(list[i], calls[i])]

\* _pop_target calls on targets of category c
RECURSIVE CallsOfType(_, _, _)
CallsOfType(list, calls, c) ==
    IF list = <<>> THEN 0
    ELSE (IF Head(list).target_type = c THEN Head(calls) ELSE 0)
         + CallsOfType(Tail(list), Tail(calls), c)

\* variant of SumPoints in which a pop never lowers the score
RECURSIVE SumPointsNoPenalty(_, _)
SumPointsNoPenalty(list, calls) ==
    IF list = <<>> THEN 0
    ELSE (IF POINTS[Head(list).target_type] > 0
          THEN POINTS[Head(list).target_type] ELSE 0) * Head(calls)
         + SumPointsNoPenalty(Tail(list), Tail(calls))

\* self.score += points, once per _pop_target call
RECURSIVE SumPoints(_, _)
SumPoints(list, calls) ==
    IF list = <<>> THEN 0
    ELSE POINTS[Head(list).target_type] * Head(calls)
         + SumPoints(Tail(list), Tail(calls))

\* variant of Clamp without the far wall
ClampNear(lo, hi, v) == IF v < lo THEN lo ELSE v

\* max(lo, min(hi, v)), for lo <= hi
Clamp(lo, hi, v) == IF v < lo THEN lo ELSE IF v > hi THEN hi ELSE v

\* variant of LifetimeAfter without the decrement
LifetimeAfterFrozen(lifetime, d) == lifetime

\* target.lifetime -= dt
LifetimeAfter(lifetime, d) == lifetime - d

\* _update_targets on one live target: drift, wall bounce, lifetime
Drift(t, d) ==
    LET x1 == t.x + (t.vx * d) \div TicksPerSecond
        y1 == t.y + (t.vy * d) \div TicksPerSecond
        bx == x1 < WallMargin \/ x1 > width - WallMargin
        by == y1 < WallMargin \/ y1 > height - WallMargin
    IN  [t EXCEPT !.x = IF bx THEN Clamp(WallMargin, width - WallMargin, x1)
                        ELSE x1,
                  !.y = IF by THEN Clamp(WallMargin, height - WallMargin, y1)
                        ELSE y1,
                  !.vx = IF bx THEN -t.vx ELSE t.vx,
                  !.vy = IF by THEN -t.vy ELSE t.vy,
                  !.lifetime = LifetimeAfter(t.lifetime, d)]

\* _update_targets on one target: the target afterwards
Aged(t, d) ==
    IF t.popped THEN [t EXCEPT !.pop_timer = @ + d] ELSE Drift(t, d)

\* variant of FadeOver that removes a target the moment the window is reached
FadeOverEarly(t) == t.pop_timer >= FadeTime

\* if target.pop_timer > 0.3
FadeOver(t) == t.pop_timer > FadeTime

\* if target.lifetime <= 0
Expired(t) == t.lifetime <= 0

\* the targets.remove(target) cases of _update_targets, on an aged target
Removed(t) == IF t.popped THEN FadeOver(t) ELSE Expired(t)

RECURSIVE UpdateTargets(_, _)
UpdateTargets(list, d) ==
    IF list = <<>> THEN <<>>
    ELSE LET aged == Aged(Head(list), d)
         IN  (IF Removed(aged) THEN <<>> ELSE <<aged>>)
             \o UpdateTargets(Tail(list), d)

IdsOf(list) == { list[i].id : i \in 1..Len(list) }

\* a name for a new target: the least one no live target carries
FreshId(list) ==
    CHOOSE i \in UNION { { k \in 1..(Len(l) + 1) :
                              /\ k \notin IdsOf(l)
                              /\ \A j \in 1..(k - 1) : j \in IdsOf(l) } : l \in {list} } :
        TRUE

\* _spawn_target: Target(x, y, target_type, vx, vy, lifetime, size)
NewTarget(list, c, point, dir) ==
    [id |-> FreshId(list), x |-> point[1], y |-> point[2], target_type |-> c,
     vx |-> IF SPEEDS[c] > 0 THEN (SPEEDS[c] * dir[1]) \div 5 ELSE 0,
     vy |-> IF SPEEDS[c] > 0 THEN (SPEEDS[c] * dir[2]) \div 5 ELSE 0,
     lifetime |-> LIFETIMES[c], size |-> SIZES[c],
     popped |-> FALSE, pop_timer |-> 0, pops |-> 0]

\* variant of SpawnDue that waits for the timer to pass the rate
SpawnDueLate(timer, c) == timer > SPAWN_RATES[c]

\* if self.spawn_timers[target_type] >= rate
SpawnDue(timer, c) == timer >= SPAWN_RATES[c]

\* _update_spawning: the categories in declaration order, one target for each
\* whose timer is due
RECURSIVE Spawned(_, _, _, _, _)
Spawned(list, cats, d, points, dirs) ==
    IF cats = <<>> THEN list
    ELSE LET c == Head(cats)
         IN  IF SpawnDue(spawn_timers[c] + d, c)
             THEN Spawned(Append(list, NewTarget(list, c, points[c], dirs[c])),
                          Tail(cats), d, points, dirs)
             ELSE Spawned(list, Tail(cats), d, points, dirs)

SpawnTimersAfter(d) ==
    [c \in CategorySet |-> IF SpawnDue(spawn_timers[c] + d, c) THEN 0
                           ELSE spawn_timers[c] + d]

\* variant of HighScoresAfter that stores the final score without comparing
HighScoresAfterOverwrite(final) == [high_scores EXCEPT ![theme] = final]

\* _end_game: the high score of the current theme
HighScoresAfter(final) ==
    IF final > high_scores[theme] THEN [high_scores EXCEPT ![theme] = final]
    ELSE high_scores

\* variant of TargetsAtStart that keeps the targets of the round before
TargetsAtStartKept(list) == list

\* _start_game: self.targets.clear()
TargetsAtStart(list) == <<>>

\* variant of CountdownOver that lets a countdown of exactly 0 go on
CountdownOverBelowZero(timer) == timer < 0

\* if self.countdown_timer <= 0
CountdownOver(timer) == timer <= 0

\* _update_countdown; _start_game when the countdown is over
UpdateCountdown(d) ==
    IF CountdownOver(countdown_timer - d)
    THEN /\ countdown_timer' = countdown_timer - d
         /\ state' = "playing"
         /\ game_timer' = RoundTime
         /\ score' = 0
         /\ targets' = TargetsAtStart(targets)
         /\ stats' = ZeroStats
         /\ spawn_timers' = ZeroStats
         /\ round_ticks' = 0
         /\ UNCHANGED high_scores
    ELSE /\ countdown_timer' = countdown_timer - d
         /\ UNCHANGED <<state, game_timer, score, targets, stats, spawn_timers,
                        round_ticks, high_scores>>

\* variant of RoundOver that lets a timer of exactly 0 play on
RoundOverBelowZero(timer) == timer < 0

\* if self.game_timer <= 0
RoundOver(timer) == timer <= 0

\* _update_playing with the players cached for this frame
UpdatePlaying(d, players, points, dirs) ==
    IF RoundOver(game_timer - d)
    THEN /\ game_timer' = 0
         /\ state' = "results"
         /\ high_scores' = HighScoresAfter(score)
         /\ round_ticks' = round_ticks + 1
         /\ UNCHANGED <<countdown_timer, score, targets, stats, spawn_timers>>
    ELSE \E live \in {UpdateTargets(Spawned(targets, Categories, d, points, dirs), d)} :
         \E calls \in {Calls(live, players)} :
             /\ game_timer' = game_timer - d
             /\ spawn_timers' = SpawnTimersAfter(d)
             /\ targets' = CollideAll(live, calls)
             /\ score' = score + SumPoints(live, calls)
             /\ stats' = [c \in CategorySet |->
                            stats[c] + CallsOfType(live, calls, c)]
             /\ round_ticks' = round_ticks + 1
             /\ UNCHANGED <<countdown_timer, state, high_scores>>

\* the categories _update_spawning spawns on a tick of d
Due(d) == { c \in CategorySet : SpawnDue(spawn_timers[c] + d, c) }

\* variant of Detects that runs the detector whether or not the camera is up
DetectsUnready(ready, count) == count = 0

\* if self.camera_ready and frame_count % 2 == 0
Detects(ready, count) == ready /\ count = 0

\* variant of RunsEngine that also runs the round on the title screen
RunsEngineOnTitle(s) == s \in {"playing", "title"}

\* _update: elif self.state == GameState.PLAYING
RunsEngine(s) == s = "playing"

\* one pass of run()'s loop body: the clock, the detection on every other
\* frame, _update(dt)
FrameWith(frames, spots, headings) ==
    /\ running = "run"
    /\ frame_count' = (frame_count + 1) % 2
    /\ \E snapshot \in (IF Detects(camera_ready, frame_count') THEN Snapshots
                        ELSE {cached_players}) :
          /\ cached_players' = snapshot
          /\ IF state = "countdown"
             THEN \E d \in CountdownFrames : UpdateCountdown(d)
             ELSE IF RunsEngine(state)
             THEN \E d \in frames :
                  \E points \in [Due(d) -> spots] :
                  \E dirs \in [{c \in Due(d) : SPEEDS[c] > 0} -> headings] :
                     UpdatePlaying(d, snapshot, points, dirs)
             ELSE UNCHANGED <<state, high_scores, roundFields, round_ticks>>
    /\ UNCHANGED <<running, camera_ready, width, height, theme, menu_selection>>
    /\ UNCHANGED <<managerVars, probeVars, replayVars>>

\* the frames of the first MaxRoundTicks ticks of a round
Frame ==
    /\ state = "playing" => round_ticks < MaxRoundTicks
    /\ FrameWith(PlayFrames, SpawnPoints, Directions)

\* the frames of the rest of a round: 30 s each, targets spawned at the centre
LongFrame ==
    /\ state = "playing" /\ round_ticks >= MaxRoundTicks
    /\ FrameWith({300}, {<<width \div 2, height \div 2>>}, {<<3, 4>>})

\* frames of 1 s and 30 s, targets spawned at the centre
QuickFrame ==
    /\ state = "playing" => round_ticks < MaxRoundTicks
    /\ FrameWith({10, 300}, {<<width \div 2, height \div 2>>}, {<<3, 4>>})

\* window sizes the player drags the window to
WindowSizes == { <<200, 160>> }

\* _handle_resize(new_width, new_height) with a size of `sizes`, once, at
\* any time
ResizeTo(sizes) ==
    /\ running = "run"
    /\ width = DefaultWidth /\ height = DefaultHeight
    /\ \E size \in sizes : width' = size[1] /\ height' = size[2]
    /\ UNCHANGED <<running, frame_count, camera_ready, cached_players, theme,
                   menu_selection, state, high_scores, roundFields, round_ticks>>
    /\ UNCHANGED <<managerVars, probeVars, replayVars>>

HandleResize == ResizeTo(WindowSizes)

\* window sizes down to one narrower than two spawn margins
NarrowSizes == { <<200, 160>>, <<159, 400>> }

ShrinkWindow == ResizeTo(NarrowSizes)

\* random.randint(margin, self.width - margin) has no value to return
SpawnRangeEmpty ==
    width - SpawnMargin < SpawnMargin \/ height - SpawnMargin < SpawnMargin

\* position of a category in SPAWN_RATES
CategoryIndex(c) == CHOOSE i \in 1..Len(Categories) : Categories[i] = c

\* a frame of a round in which _spawn_target raises ValueError: the timers
\* of the categories before the one being spawned have advanced, its own is
\* reset, and the exception leaves run()
SpawnFails ==
    /\ running = "run"
    /\ state = "playing"
    /\ SpawnRangeEmpty
    /\ \E d \in {10, 300} :
          /\ ~RoundOver(game_timer - d)
          /\ Due(d) # {}
          /\ \E first \in Due(d) :
                /\ \A c \in Due(d) : CategoryIndex(first) <= CategoryIndex(c)
                /\ spawn_timers' =
                      [c \in CategorySet |->
                          IF CategoryIndex(c) < CategoryIndex(first)
                          THEN spawn_timers[c] + d
                          ELSE IF c = first THEN 0 ELSE spawn_timers[c]]
          /\ game_timer' = game_timer - d
    /\ running' = "error"
    /\ frame_count' = (frame_count + 1) % 2
    /\ \E snapshot \in (IF Detects(camera_ready, frame_count') THEN Snapshots
                        ELSE {cached_players}) :
          cached_players' = snapshot
    /\ UNCHANGED <<camera_ready, width, height, theme, menu_selection, state,
                   high_scores, countdown_timer, score, targets, stats, round_ticks>>
    /\ UNCHANGED <<managerVars, probeVars, replayVars>>

\* the frames in which _spawn_target, if called, has a position to return
SpawnableFrame ==
    /\ state = "playing" => round_ticks < MaxRoundTicks
    /\ FrameWith(IF state = "playing" /\ SpawnRangeEmpty
                 THEN { d \in {10, 300} : RoundOver(game_timer - d) \/ Due(d) = {} }
                 ELSE {10, 300},
                 {<<width \div 2, height \div 2>>}, {<<3, 4>>})

\* frames of 1 s and 5 s, targets spawned at either point, in either direction
BounceFrame ==
    /\ state = "playing" => round_ticks < MaxRoundTicks
    /\ FrameWith({10, 50}, SpawnPoints, Directions)

\* the player's keys
KeyDown == \E key \in Keys : HandleKeydown(key)

\* SPACE or RETURN on the menu and on the title screen: one round is played
PressStart == state \in {"menu", "title"} /\ HandleKeydown("SPACE")

\* ------------------------------------------------------------------------
\* Specifications
\* ------------------------------------------------------------------------
\* no check_hand_hit call has been probed
ProbeIdle ==
    /\ probe_hand = None
    /\ probe_target = None
    /\ probe_result = <<>>

\* nothing is recorded
ReplayIdle ==
    /\ trace = <<>>
    /\ replay_pos = 0
    /\ first_score = <<>>

Init == ManagerInit /\ GameInit /\ ProbeIdle /\ ReplayIdle

\* the caller starts one sequence on a fresh manager
Start ==
    /\ \E sequence \in Library : ~HasSequence /\ StartSequence(sequence)
    /\ UNCHANGED <<gameVars, probeVars, replayVars>>

\* the caller's tick loop
Tick ==
    /\ \E d \in DtSet, lh \in LeftHands, rh \in RightHands :
          /\ loop_count < max_loops + MaxExtraLoops
          /\ Update(d, lh, rh)
    /\ UNCHANGED <<gameVars, probeVars, replayVars>>

\* the choreography manager, started once and ticked
Next == Start \/ Tick

Spec == Init /\ [][Next]_vars

\* a coarser tick loop: ticks of 1 s and 3 s, each hand absent or inside its
\* "Both Hands Up" zone
CoarseDts == {2, 6}
CoarseLeftHands == { None, <<384, 144>> }
CoarseRightHands == { None, <<896, 145>> }

CoarseTick ==
    /\ \E d \in CoarseDts, lh \in CoarseLeftHands, rh \in CoarseRightHands :
          /\ loop_count < max_loops + MaxExtraLoops
          /\ Update(d, lh, rh)
    /\ UNCHANGED <<gameVars, probeVars, replayVars>>

\* the choreography manager whose caller keeps calling update
LiveNext == Start \/ CoarseTick

LiveSpec == Init /\ [][LiveNext]_vars /\ WF_vars(CoarseTick)

\* the caller starts a sequence again on the manager in use
Restart ==
    /\ \E sequence \in Library : HasSequence /\ StartSequence(sequence)
    /\ UNCHANGED <<gameVars, probeVars, replayVars>>

\* the choreography manager, started, ticked and started again at any time
RestartNext == Start \/ CoarseTick \/ Restart

RestartSpec == Init /\ [][RestartNext]_vars

\* the popper game with the player's keys: rounds are aborted and replayed
PlayNext == StartGame \/ KeyDown \/ QuickFrame

PlaySpec == Init /\ [][PlayNext]_vars

\* the popper game, one round played to its end; the loop keeps running frames
RoundNext == StartGame \/ PressStart \/ QuickFrame \/ LongFrame

RoundSpec == Init /\ [][RoundNext]_vars /\ WF_vars(QuickFrame \/ LongFrame)

\* the caller sets the two public timing attributes before a sequence is
\* started: a floor equal to, or above, the ceiling
Misconfigurations == { <<10, 10>>, <<12, 10>>, <<6, 4>> }

Configure ==
    /\ ~HasSequence
    /\ min_display_time = DefaultMinDisplayTime /\ move_timeout = DefaultMoveTimeout
    /\ \E c \in Misconfigurations :
          /\ min_display_time' = c[1]
          /\ move_timeout' = c[2]
    /\ UNCHANGED <<current_sequence, current_move_index, move_timer, left_hand_hit,
                   right_hand_hit, celebrating, celebration_timer, moves_completed,
                   moves_missed, current_streak, best_streak, loop_count, max_loops>>
    /\ UNCHANGED <<callVars, observers, gameVars, probeVars, replayVars>>

\* the caller loads a sequence of the library, or one with no moves
Load ==
    /\ \E sequence \in Library \cup { <<>> } : ~HasSequence /\ StartSequence(sequence)
    /\ UNCHANGED <<gameVars, probeVars, replayVars>>

\* the choreography manager, configured, loaded and ticked
ConfigNext == Configure \/ Load \/ CoarseTick

ConfigSpec == Init /\ [][ConfigNext]_vars

\* a run of the manager is recorded call by call, then the same calls are
\* made on a second, newly constructed manager started on the same sequence
MaxTrace == 4

\* moves_completed, moves_missed, current_streak, best_streak (get_stats)
ScoreState == <<moves_completed, moves_missed, current_streak, best_streak>>

\* a manager whose attributes outlive the instance: the second manager sees
\* the values the first one left
SharedManager ==
    [current_move_index |-> current_move_index, move_timer |-> move_timer,
     move_timeout |-> move_timeout, min_display_time |-> min_display_time,
     left_hand_hit |-> left_hand_hit, right_hand_hit |-> right_hand_hit,
     celebrating |-> celebrating, celebration_timer |-> celebration_timer,
     moves_completed |-> moves_completed, moves_missed |-> moves_missed,
     current_streak |-> current_streak, best_streak |-> best_streak,
     loop_count |-> loop_count, max_loops |-> max_loops]

\* DanceTargetManager.__init__: the attributes of a new instance
FreshManager ==
    [current_move_index |-> 0, move_timer |-> 0,
     move_timeout |-> DefaultMoveTimeout, min_display_time |-> DefaultMinDisplayTime,
     left_hand_hit |-> FALSE, right_hand_hit |-> FALSE,
     celebrating |-> FALSE, celebration_timer |-> 0,
     moves_completed |-> 0, moves_missed |-> 0,
     current_streak |-> 0, best_streak |-> 0,
     loop_count |-> 0, max_loops |-> DefaultMaxLoops]

\* one update call of the first run, recorded with the events it returned
RecordTick ==
    /\ replay_pos = 0
    /\ HasSequence
    /\ Len(trace) < MaxTrace
    /\ \E d \in CoarseDts, lh \in CoarseLeftHands, rh \in CoarseRightHands :
          /\ Update(d, lh, rh)
          /\ trace' = Append(trace, [dt |-> d, left_hand |-> lh, right_hand |-> rh,
                                     events |-> events'])
    /\ UNCHANGED <<replay_pos, first_score>>
    /\ UNCHANGED <<gameVars, probeVars>>

\* the first run ends: its score is kept; a second manager is constructed and
\* start_sequence is called on it with the same sequence
BeginReplay ==
    /\ replay_pos = 0
    /\ trace # <<>>
    /\ first_score' = << ScoreState >>
    /\ replay_pos' = 1
    /\ UNCHANGED trace
    \* m = DanceTargetManager(w, h)
    /\ move_timeout' = FreshManager.move_timeout
    /\ min_display_time' = FreshManager.min_display_time
    /\ celebrating' = FreshManager.celebrating
    /\ celebration_timer' = FreshManager.celebration_timer
    /\ best_streak' = FreshManager.best_streak
    /\ max_loops' = FreshManager.max_loops
    \* m.start_sequence(sequence)
    /\ current_sequence' = current_sequence
    /\ current_move_index' = 0
    /\ move_timer' = 0
    /\ left_hand_hit' = FALSE
    /\ right_hand_hit' = FALSE
    /\ moves_completed' = 0
    /\ moves_missed' = 0
    /\ current_streak' = 0
    /\ loop_count' = 0
    /\ UNCHANGED callVars
    /\ visit_hit' = 0
    /\ visit_miss' = 0
    /\ last_visit' = <<>>
    /\ visits_concluded' = 0
    /\ complete_ticks' = 0
    /\ UNCHANGED <<gameVars, probeVars>>

\* the next recorded call is made on the second manager
ReplayTick ==
    /\ replay_pos \in 1..Len(trace)
    /\ Update(trace[replay_pos].dt, trace[replay_pos].left_hand,
              trace[replay_pos].right_hand)
    /\ replay_pos' = replay_pos + 1
    /\ UNCHANGED <<trace, first_score>>
    /\ UNCHANGED <<gameVars, probeVars>>

\* the choreography manager run twice on the same calls
ReplayNext == Start \/ RecordTick \/ BeginReplay \/ ReplayTick

ReplaySpec == Init /\ [][ReplayNext]_vars

\* the tick loop with no player in view: both hands absent on every call
AbsentTick ==
    /\ \E d \in DtSet :
          /\ loop_count < max_loops + MaxExtraLoops
          /\ Update(d, None, None)
    /\ UNCHANGED <<gameVars, probeVars, replayVars>>

\* the choreography manager, started once and ticked with nobody in view
AbsentNext == Start \/ AbsentTick

AbsentSpec == Init /\ [][AbsentNext]_vars

\* check_hand_hit is called once, on a hand and a target drawn from a grid
\* around the "Both Hands Up" left zone: absent, inside, on the rim, one
\* pixel outside
ProbeOffsets == {-81, -80, -64, -48, 0, 48, 60, 64, 80, 81}

ProbeHands ==
    {None} \cup { <<384 + dx, 144 + dy>> : dx \in ProbeOffsets, dy \in ProbeOffsets }

ProbeTargets == { None, ToPixels(<<30, 20>>), ToPixels(<<70, 20>>) }

ProbeInit ==
    /\ ManagerInit /\ GameInit /\ ReplayIdle
    /\ probe_hand \in ProbeHands
    /\ probe_target \in ProbeTargets
    /\ probe_result = <<>>

\* self.check_hand_hit(hand_pos, target_pos)
CheckCall ==
    /\ probe_result = <<>>
    /\ probe_result' = << CheckHandHit(probe_hand, probe_target) >>
    /\ UNCHANGED <<probe_hand, probe_target>>
    /\ UNCHANGED <<managerVars, gameVars, replayVars>>

ProbeNext == CheckCall

ProbeSpec == ProbeInit /\ [][ProbeNext]_vars

\* the popper game in a window that is resized once
ResizeNext == StartGame \/ PressStart \/ HandleResize \/ BounceFrame

ResizeSpec == Init /\ [][ResizeNext]_vars

\* the popper game in a window that is made small once
ShrinkNext == StartGame \/ PressStart \/ ShrinkWindow \/ SpawnableFrame \/ SpawnFails

ShrinkSpec == Init /\ [][ShrinkNext]_vars

\* the popper game, one round
GameNext == StartGame \/ PressStart \/ Frame

GameSpec == Init /\ [][GameNext]_vars

\* ------------------------------------------------------------------------
\* Properties of DanceTargetManager
\* ------------------------------------------------------------------------
InMove == HasSequence /\ current_move_index < Len(Moves)

\* every defined hand target of move `idx` carries its hit flag
AllDefinedHit(idx, left_flag, right_flag) ==
    /\ LeftTarget(idx) = None \/ left_flag
    /\ RightTarget(idx) = None \/ right_flag

Max(a, b) == IF a > b THEN a ELSE b

\* C1: 'hit' is never emitted, and moves_completed never grows, on a tick
\* whose move_timer (after the tick's increment) is below min_display_time;
\* until then the manager stays non-celebrating on the move.
C1_NoHitBeforeFloor ==
    /\ [](events.hit => elapsed >= min_display_time)
    /\ [][ /\ moves_completed' > moves_completed => elapsed' >= min_display_time
           /\ (InMove /\ ~celebrating /\ elapsed' < min_display_time)
                 => (~celebrating' /\ ~events'.hit
                     /\ moves_completed' = moves_completed) ]_vars

\* C1 witness: all defined hands were hit early, the floor is not reached,
\* and the manager is still waiting on the move
C1_Witness ==
    /\ InMove /\ current_move_index = 2
    /\ left_hand_hit /\ right_hand_hit
    /\ elapsed > 0 /\ elapsed < min_display_time
    /\ move_timer = elapsed
    /\ ~celebrating /\ ~events.hit

\* C2: every concluded move visit saw exactly one of 'hit' and 'miss'.
C2_ExactlyOneOutcomePerVisit ==
    last_visit # <<>> => last_visit \in { <<1, 0>>, <<0, 1>> }

\* C4: once loop_count has reached max_loops further updates evaluate no
\* move, and 'sequence_complete' is emitted on one tick only.
C4_CompleteOnceThenSilent ==
    /\ [](complete_ticks <= 1)
    /\ [][ (HasSequence /\ LoopsDone(loop_count))
             => /\ ~events'.hit /\ ~events'.miss /\ ~events'.pop
                /\ UNCHANGED <<moves_completed, moves_missed,
                               current_streak, best_streak>> ]_vars

\* C5: the first 'sequence_complete' comes after n*L concluded move visits,
\* and then moves_completed + moves_missed = n*L.
C5_CompleteAfterAllVisits ==
    (events.sequence_complete /\ complete_ticks = 1)
        => /\ visits_concluded = Len(Moves) * max_loops
           /\ moves_completed + moves_missed = Len(Moves) * max_loops

\* C6: a tick that emits 'miss' leaves current_streak at 0, and best_streak
\* never decreases.
C6_StreakInvariant ==
    /\ [](events.miss => current_streak = 0)
    /\ [][best_streak' >= best_streak]_vars

\* C6 witness: a miss after a streak was built
C6_Witness == events.miss /\ best_streak >= 2 /\ current_streak = 0

\* the index _next_move and the end-of-sequence check leave after move `idx`
AdvancedIndex(idx) ==
    IF idx + 1 < Len(Moves) THEN idx + 1
    ELSE IF loop_count + 1 >= max_loops THEN idx + 1
    ELSE 0

\* C8: a move not satisfied when move_timer reaches move_timeout is missed on
\* that tick: 'miss', moves_missed + 1, current_streak 0, and the manager is
\* on the next move in the same tick, not celebrating.
C8_TimeoutIsImmediateMiss ==
    [][ (InMove /\ ~celebrating /\ elapsed' >= move_timeout /\ ~events'.hit)
          => /\ events'.miss
             /\ moves_missed' = moves_missed + 1
             /\ current_streak' = 0
             /\ ~celebrating'
             /\ current_move_index' = AdvancedIndex(current_move_index)
             /\ move_timer' = 0
             /\ ~left_hand_hit' /\ ~right_hand_hit' ]_vars

\* C8 witness: a timeout broke a streak and moved on to the next move
C8_Witness ==
    /\ events.miss /\ elapsed >= move_timeout
    /\ current_move_index = 2 /\ moves_completed = 1 /\ moves_missed = 1
    /\ current_streak = 0 /\ ~celebrating /\ move_timer = 0

\* C9: a satisfied move emits 'hit', counts (completed + 1, streak + 1, best
\* streak = max) and starts the celebration with the index unchanged; the
\* index grows by one, and flags and timers are reset, on the tick on which
\* celebration_timer reaches celebration_time and on no earlier tick.
C9_HitThenCelebrateThenAdvance ==
    [][ /\ (InMove /\ ~celebrating /\ elapsed' >= min_display_time
              /\ AllDefinedHit(current_move_index, left_hand_hit', right_hand_hit'))
           => events'.hit
        /\ (InMove /\ events'.hit)
           => /\ ~celebrating /\ celebrating'
              /\ celebration_timer' = 0
              /\ moves_completed' = moves_completed + 1
              /\ current_streak' = current_streak + 1
              /\ best_streak' = Max(best_streak, current_streak + 1)
              /\ current_move_index' = current_move_index
              /\ move_timer' = elapsed'
        /\ (HasSequence /\ celebrating)
           => LET d == elapsed' - move_timer
              IN  IF celebration_timer + d >= CelebrationTime
                  THEN /\ current_move_index' = current_move_index + 1
                       /\ ~left_hand_hit' /\ ~right_hand_hit'
                       /\ move_timer' = 0 /\ celebration_timer' = 0
                       /\ ~celebrating' /\ events'.complete
                  ELSE /\ current_move_index' = current_move_index
                       /\ UNCHANGED <<left_hand_hit, right_hand_hit, celebrating>>
                       /\ move_timer' = move_timer + d
                       /\ celebration_timer' = celebration_timer + d
                       /\ ~events'.complete ]_vars

\* C9 witness: the celebration of the first move has just ended
C9_Witness ==
    /\ events.complete /\ current_move_index = 1 /\ moves_completed = 1
    /\ current_streak = 1 /\ best_streak = 1 /\ elapsed >= min_display_time + CelebrationTime
    /\ move_timer = 0 /\ ~left_hand_hit /\ ~right_hand_hit /\ ~celebrating

\* C12: a hand registers its hit once per move visit: 'pop' is emitted on a
\* tick exactly when a hand whose flag is not yet set is in range of its
\* target, the flag is set on that tick, a set flag stays set while the move
\* is awaited and celebrated, and a hand that stays in range emits no
\* further 'pop'; the flags are cleared only when the manager advances.
C12_HitRegistersOncePerVisit ==
    [][ /\ (HasSequence /\ celebrating) =>
              /\ ~events'.pop
              /\ ~events'.complete =>
                    UNCHANGED <<left_hand_hit, right_hand_hit, current_move_index>>
        /\ (HasSequence /\ ~celebrating) =>
              \A lh \in LeftHands, rh \in RightHands :
                 Update(elapsed' - move_timer, lh, rh) =>
                    LET left_in == CheckHandHit(lh, LeftTarget(current_move_index))
                        right_in == CheckHandHit(rh, RightTarget(current_move_index))
                    IN  /\ events'.pop <=> \/ (left_in /\ ~left_hand_hit)
                                           \/ (right_in /\ ~right_hand_hit)
                        /\ ~events'.miss =>
                              /\ left_hand_hit' = (left_hand_hit \/ left_in)
                              /\ right_hand_hit' = (right_hand_hit \/ right_in)
                        /\ events'.miss => (~left_hand_hit' /\ ~right_hand_hit')
      ]_vars

\* C12 witness: both flags of "Both Hands Up" were set on earlier ticks and
\* are still set after a tick that emitted no 'pop'
C12_Witness ==
    /\ InMove /\ current_move_index = 2 /\ ~celebrating
    /\ left_hand_hit /\ right_hand_hit
    /\ ~events.pop /\ ~events.hit
    /\ elapsed >= 2 /\ elapsed < min_display_time /\ move_timer = elapsed

\* C13: start_sequence leaves the manager fully cleared, whatever state it
\* was called in: move index 0, hit flags false, not celebrating, both timers
\* 0, loop_count 0 and moves_completed, moves_missed, current_streak and
\* best_streak 0.
C13_StartSequenceClearsSession ==
    [][ (\E sequence \in Library : StartSequence(sequence)) =>
            /\ current_move_index' = 0
            /\ ~left_hand_hit' /\ ~right_hand_hit'
            /\ ~celebrating'
            /\ move_timer' = 0 /\ celebration_timer' = 0
            /\ loop_count' = 0
            /\ moves_completed' = 0 /\ moves_missed' = 0
            /\ current_streak' = 0 /\ best_streak' = 0
      ]_vars

\* C18: with min_display_time >= move_timeout no move is ever satisfied:
\* 'hit' is not emitted on any tick that evaluates a move.
C18_FloorAboveCeilingNeverHits ==
    [][ (min_display_time >= move_timeout /\ InMove /\ ~celebrating)
            => ~events'.hit ]_vars

\* C19: start_sequence rejects a sequence without moves: the manager never
\* holds one, so update never runs on it.
C19_EmptySequenceRejected ==
    HasSequence => Len(Moves) > 0

C24_AbsentHandsOnlyMiss ==
    /\ ~left_hand_hit /\ ~right_hand_hit
    /\ ~events.pop /\ ~events.hit
    /\ moves_completed = 0 /\ current_streak = 0
    /\ last_visit # <<>> => last_visit = <<0, 1>>

\* C26: a move is satisfied only with the pose held: on the tick that emits
\* 'hit' for a move, each hand whose target is defined is inside its zone;
\* a hand that was in the zone earlier in the visit and left it does not
\* count.
C26_SatisfiedOnlyWhileInZone ==
    [][ \A d \in DtSet, lh \in LeftHands, rh \in RightHands :
           (InMove /\ ~celebrating /\ Update(d, lh, rh) /\ events'.hit) =>
               /\ LeftTarget(current_move_index) # None =>
                     CheckHandHit(lh, LeftTarget(current_move_index))
               /\ RightTarget(current_move_index) # None =>
                     CheckHandHit(rh, RightTarget(current_move_index)) ]_vars

\* C27: every update call that tests the hands, the floor and the timeout
\* (a call on a started manager that is not celebrating) finds
\* current_move_index < len(moves): an index that reached len(moves) was
\* reset to 0, or the sequence reported complete, before the next such call.
C27_IndexInRangeWhenEvaluating ==
    [][ \A d \in DtSet, lh \in LeftHands, rh \in RightHands :
           (HasSequence /\ ~celebrating /\ Update(d, lh, rh)) =>
               current_move_index < Len(Moves) ]_vars

\* C31: only the hands whose target is defined count. For a move without a
\* left (right) target the left (right) hit flag is never set, and an update
\* has the same outcome, 'pop' included, wherever that hand is; the update
\* emits 'hit' exactly when every defined target is hit and move_timer has
\* reached min_display_time.
C31_UndefinedHandIgnored ==
    /\ [](InMove =>
            /\ LeftTarget(current_move_index) = None => ~left_hand_hit
            /\ RightTarget(current_move_index) = None => ~right_hand_hit)
    /\ [][ \A d \in DtSet, lh \in LeftHands, rh \in RightHands :
             (InMove /\ ~celebrating /\ Update(d, lh, rh)) =>
                /\ LeftTarget(current_move_index) = None =>
                      \A other \in LeftHands : Update(d, other, rh)
                /\ RightTarget(current_move_index) = None =>
                      \A other \in RightHands : Update(d, lh, other)
                /\ events'.hit <=>
                      /\ LeftTarget(current_move_index) # None => left_hand_hit'
                      /\ RightTarget(current_move_index) # None => right_hand_hit'
                      /\ move_timer + d >= min_display_time
         ]_vars

\* C31 witness: "Right In", which has no left target, was satisfied by the
\* right hand alone
C31_Witness ==
    /\ HasSequence /\ current_move_index = 0 /\ Moves[1] = RightIn
    /\ events.hit /\ celebrating
    /\ right_hand_hit /\ ~left_hand_hit
    /\ moves_completed = 1

\* C33: a started sequence is eventually reported complete, whatever the
\* hands do: after every update a move that is awaited has been shown for
\* less than move_timeout and a celebration has lasted less than
\* celebration_time, and 'sequence_complete' is eventually emitted.
C33_SequenceEventuallyComplete ==
    /\ [](HasSequence =>
            /\ ~celebrating => move_timer < move_timeout
            /\ celebrating => celebration_timer < CelebrationTime)
    /\ HasSequence ~> events.sequence_complete

\* C33 witness: the three-move sequence is reported complete after hits and
\* misses
C33_Witness ==
    /\ HasSequence /\ Len(Moves) = 3
    /\ events.sequence_complete /\ loop_count = max_loops
    /\ moves_completed >= 1 /\ moves_missed >= 1

\* get_score(): 100 per completed move plus 50 per move of the best streak
GetScore(completed, best) == 100 * completed + 50 * best

\* C36: on a manager started once, 0 <= current_streak <= best_streak <=
\* moves_completed in every state, and get_score() never decreases.
C36_StreaksOrderedScoreMonotone ==
    /\ [](/\ 0 <= current_streak
          /\ current_streak <= best_streak
          /\ best_streak <= moves_completed)
    /\ [][ GetScore(moves_completed', best_streak')
              >= GetScore(moves_completed, best_streak) ]_vars

\* C36 witness: three moves completed, the best streak was two, and a new
\* streak of one is running
C36_Witness ==
    /\ HasSequence
    /\ moves_completed = 3 /\ best_streak = 2 /\ current_streak = 1
    /\ moves_missed >= 1

\* the events an update made during a celebration must not emit
SilentEvents ==
    ~events'.hit /\ ~events'.miss /\ ~events'.pop /\ ~events'.sequence_complete

\* C37 as stated: every update made while celebrating ignores the hands,
\* changes no hit flag, no score counter, no streak and not the move index,
\* emits no 'hit', 'miss', 'pop' or 'sequence_complete', and emits 'complete'
\* only on the tick the celebration ends.
C37_CelebrationChangesNothing ==
    [][ \A d \in DtSet, lh \in LeftHands, rh \in RightHands :
          (HasSequence /\ celebrating /\ Update(d, lh, rh)) =>
             /\ \A ol \in LeftHands, or \in RightHands : Update(d, ol, or)
             /\ UNCHANGED <<left_hand_hit, right_hand_hit>>
             /\ UNCHANGED ScoreState
             /\ UNCHANGED current_move_index
             /\ SilentEvents
             /\ events'.complete <=> celebration_timer + d >= CelebrationTime
      ]_vars

\* C37 amended: an update made while celebrating ignores the hands, changes no
\* score counter and no streak and emits no 'hit', 'miss', 'pop' or
\* 'sequence_complete'; 'complete' is emitted exactly on the tick the
\* celebration ends; an update that does not end the celebration changes no hit
\* flag and not the move index, and the one that ends it advances the move
\* index by one and clears both hit flags.
C37_CelebrationOnlyAdvancesAtEnd ==
    [][ \A d \in DtSet, lh \in LeftHands, rh \in RightHands :
          (HasSequence /\ celebrating /\ Update(d, lh, rh)) =>
             /\ \A ol \in LeftHands, or \in RightHands : Update(d, ol, or)
             /\ UNCHANGED ScoreState
             /\ SilentEvents
             /\ events'.complete <=> celebration_timer + d >= CelebrationTime
             /\ IF events'.complete
                 THEN /\ current_move_index' = current_move_index + 1
                      /\ ~left_hand_hit' /\ ~right_hand_hit'
                      /\ ~celebrating'
                 ELSE /\ UNCHANGED <<left_hand_hit, right_hand_hit,
                                     current_move_index>>
                      /\ celebrating'
      ]_vars

\* C37 witness: the celebration of the first move has just ended
C37_Witness ==
    /\ HasSequence
    /\ events.complete /\ ~celebrating
    /\ moves_completed = 1 /\ current_move_index = 1

\* C37 witness of a tick inside a celebration: half a second into it
C37_MidCelebration ==
    /\ HasSequence /\ celebrating /\ celebration_timer = 1
    /\ events = NoEvents

\* a defined target counts as hit on this tick: hit earlier in the move, or
\* the hand is in its zone now
HitBy(flag, hand, target) == target # None => (flag \/ CheckHandHit(hand, target))

\* C38: on a tick where all defined hand targets are hit and move_timer has
\* reached both min_display_time and move_timeout, the move is scored as a
\* 'hit' (completed, streak continued, celebration entered) and not as a 'miss'.
C38_HitWinsOverTimeout ==
    [][ \A d \in DtSet, lh \in LeftHands, rh \in RightHands :
          (/\ InMove /\ ~celebrating
           /\ Update(d, lh, rh)
           /\ move_timer + d >= min_display_time
           /\ move_timer + d >= move_timeout
           /\ HitBy(left_hand_hit, lh, LeftTarget(current_move_index))
           /\ HitBy(right_hand_hit, rh, RightTarget(current_move_index)))
          => /\ events'.hit /\ ~events'.miss
             /\ moves_completed' = moves_completed + 1
             /\ moves_missed' = moves_missed
             /\ current_streak' = current_streak + 1
             /\ celebrating'
             /\ current_move_index' = current_move_index
      ]_vars

\* C38 witness: the first move was completed on a tick at which its timer
\* had reached the timeout
C38_Witness ==
    /\ HasSequence /\ celebrating
    /\ events.hit /\ ~events.miss
    /\ elapsed >= move_timeout
    /\ moves_completed = 1 /\ moves_missed = 0 /\ current_streak = 1

\* ------------------------------------------------------------------------
\* Properties of the popper round
\* ------------------------------------------------------------------------
\* a step that ran _update_playing through spawning, targets and collisions
PlayingTick ==
    state = "playing" /\ state' = "playing" /\ round_ticks' = round_ticks + 1

\* the dt of a PlayingTick
TickDt == game_timer - game_timer'

\* popped by the _check_collisions that ran last
JustPopped(t) == t.popped /\ t.pop_timer = 0

\* squared distance between a hand and a target's centre
DistSq(hand, t) ==
    (hand[1] - t.x) * (hand[1] - t.x) + (hand[2] - t.y) * (hand[2] - t.y)

HandsOf(players) == { Hands(players)[i] : i \in 1..Len(Hands(players)) }

\* the point values of the targets of a list popped by the last check
RECURSIVE JustPoppedPoints(_)
JustPoppedPoints(list) ==
    IF list = <<>> THEN 0
    ELSE (IF JustPopped(Head(list)) THEN POINTS[Head(list).target_type] ELSE 0)
         + JustPoppedPoints(Tail(list))

JustPoppedOfType(list, c) ==
    Cardinality({ i \in 1..Len(list) :
                    JustPopped(list[i]) /\ list[i].target_type = c })

\* C3: a target is scored at most once: _pop_target runs once on it, on the
\* tick a hand first is in range (however many hands overlap it), the score
\* and the stats grow by exactly the targets popped on the tick, and a popped
\* target is not popped again while it fades.
C3_ScoredOncePerTarget ==
    /\ [](\A i \in 1..Len(targets) :
             targets[i].pops = IF targets[i].popped THEN 1 ELSE 0)
    /\ [][ PlayingTick =>
            /\ score' = score + JustPoppedPoints(targets')
            /\ \A c \in CategorySet :
                  stats'[c] = stats[c] + JustPoppedOfType(targets', c)
            /\ \A i \in 1..Len(targets') :
                  /\ JustPopped(targets'[i]) =>
                        \E hand \in HandsOf(cached_players') :
                            InPopRange(hand, targets'[i])
                  /\ ~targets'[i].popped =>
                        \A hand \in HandsOf(cached_players') :
                            ~InPopRange(hand, targets'[i])
            /\ \A i \in 1..Len(targets), j \in 1..Len(targets') :
                  (targets[i].popped /\ targets'[j].id = targets[i].id)
                     => /\ targets'[j].popped
                        /\ targets'[j].pops = targets[i].pops
                        /\ targets'[j].pop_timer = targets[i].pop_timer + TickDt
          ]_vars

\* C3 witness: a popped target fades, scored once, while both hands of the
\* player are still on it
C3_Witness ==
    /\ state = "playing" /\ Len(cached_players) = 1
    /\ \E i \in 1..Len(targets) :
          /\ targets[i].popped /\ targets[i].pop_timer > 0 /\ targets[i].pops = 1
          /\ cached_players[1].left_hand # None
          /\ cached_players[1].right_hand # None
          /\ InPopRange(cached_players[1].left_hand, targets[i])
          /\ InPopRange(cached_players[1].right_hand, targets[i])
    /\ score = 5 /\ stats["bauble"] = 1

\* C7: the lifetime of a non-popped target never grows; the target leaves
\* the list on the first tick that brings its lifetime to 0 or below, and
\* that tick scores nothing for it: score and stats change only by the
\* targets popped on the tick, which are still in the list.
C7_ExpiryIsSilent ==
    /\ [](\A i \in 1..Len(targets) :
             ~targets[i].popped => targets[i].lifetime > 0)
    /\ [][ PlayingTick =>
            /\ \A i \in 1..Len(targets) :
                  ~targets[i].popped =>
                     /\ (targets[i].lifetime - TickDt <= 0)
                           <=> (targets[i].id \notin IdsOf(targets'))
                     /\ \A j \in 1..Len(targets') :
                           targets'[j].id = targets[i].id =>
                              targets'[j].lifetime = targets[i].lifetime - TickDt
            /\ score' = score + JustPoppedPoints(targets')
            /\ \A c \in CategorySet :
                  stats'[c] = stats[c] + JustPoppedOfType(targets', c)
          ]_vars

\* C7 witness: after a 1 s tick and a 30 s tick of a round with a player in
\* view, the bauble of the first tick is gone and nothing was scored
C7_Witness ==
    /\ state = "playing" /\ round_ticks = 2 /\ game_timer = RoundTime - 310
    /\ spawn_timers["bauble"] = 0
    /\ targets = <<>> /\ score = 0 /\ stats = ZeroStats
    /\ cached_players # <<>>

\* C10: after the collision check of a tick, a target is popped by it if and
\* only if some hand is at distance <= 50 + size/2 from its centre.
C10_PopIffWithinRadius ==
    [][ (PlayingTick /\ cached_players' # <<>>) =>
          \A i \in 1..Len(targets') :
             LET t == targets'[i]
                 r == HandRadius + t.size \div 2
             IN  (~t.popped \/ JustPopped(t)) =>
                    (JustPopped(t) <=>
                        \E hand \in HandsOf(cached_players') :
                            DistSq(hand, t) <= r * r) ]_vars

\* the targets of category c in the list after a tick that were not in the
\* list before it
NewOfType(c) ==
    { j \in 1..Len(targets') :
        targets'[j].id \notin IdsOf(targets) /\ targets'[j].target_type = c }

\* C21: on a PLAYING tick each category's spawn timer grows by dt and, when
\* it reaches the category's rate, is reset to 0 and one target of the
\* category is spawned (it is in the list after the tick unless its lifetime
\* is over within the same tick); no category spawns more than one target on
\* a tick, categories spawn independently, and every timer stays in
\* 0 <= timer < rate.
C21_SpawnTimerPerCategory ==
    /\ [](\A c \in CategorySet :
             0 <= spawn_timers[c] /\ spawn_timers[c] < SPAWN_RATES[c])
    /\ [][ PlayingTick =>
            \A c \in CategorySet :
               LET due == spawn_timers[c] + TickDt >= SPAWN_RATES[c]
               IN  /\ spawn_timers'[c] = IF due THEN 0 ELSE spawn_timers[c] + TickDt
                   /\ Cardinality(NewOfType(c)) =
                         IF due /\ LIFETIMES[c] - TickDt > 0 THEN 1 ELSE 0
                   /\ \A j \in NewOfType(c) :
                         /\ targets'[j].lifetime = LIFETIMES[c] - TickDt
                         /\ targets'[j].size = SIZES[c]
          ]_vars

\* C21 witness: the second tick of a round (5 s, then 1 s) spawned a bauble
\* and a grinch together
C21_Witness ==
    /\ state = "playing" /\ round_ticks = 2 /\ game_timer = RoundTime - 60
    /\ spawn_timers["bauble"] = 0 /\ spawn_timers["grinch"] = 0
    /\ spawn_timers["elf"] = 10 /\ spawn_timers["santa"] = 60
    /\ \E i \in 1..Len(targets), j \in 1..Len(targets) :
          /\ targets[i].target_type = "bauble" /\ targets[i].lifetime = 70
          /\ targets[j].target_type = "grinch" /\ targets[j].lifetime = 20

\* the targets a collision check tested against the hands and found in range
\* of `hand`: in the list after the tick, in list order
InRangeOf(hand) ==
    { j \in 1..Len(targets') :
        /\ ~targets'[j].popped \/ JustPopped(targets'[j])
        /\ InPopRange(hand, targets'[j]) }

\* C22: when a hand is in range of several non-popped targets on a tick,
\* the collision check pops only the first of them in list order: a later
\* one stays non-popped unless another hand is in range of it, and a tick
\* pops no more targets than there are hands.
C22_OnlyFirstInRangePopped ==
    [][ PlayingTick =>
          /\ \A hand \in HandsOf(cached_players') :
                \A j \in InRangeOf(hand) :
                   (\E i \in InRangeOf(hand) : i < j) =>
                       \/ ~targets'[j].popped
                       \/ \E other \in HandsOf(cached_players') \ {hand} :
                             InPopRange(other, targets'[j])
          /\ Cardinality({ j \in 1..Len(targets') : JustPopped(targets'[j]) })
                <= Cardinality(HandsOf(cached_players')) ]_vars

\* C23: a popped target stays in the list with its position, velocity,
\* lifetime and popped flag unchanged while its pop_timer, which grows by dt
\* each tick, has not passed the fade window; the tick that takes pop_timer
\* past the window removes it, and score and stats change on that tick only
\* by the targets popped on it.
C23_PoppedFadesThenSilentlyRemoved ==
    /\ [](\A i \in 1..Len(targets) :
             targets[i].popped => targets[i].pop_timer <= FadeTime)
    /\ [][ PlayingTick =>
            /\ \A i \in 1..Len(targets) :
                  targets[i].popped =>
                     IF targets[i].pop_timer + TickDt > FadeTime
                     THEN targets[i].id \notin IdsOf(targets')
                     ELSE \E j \in 1..Len(targets') :
                             targets'[j] =
                                [targets[i] EXCEPT !.pop_timer = @ + TickDt]
            /\ score' = score + JustPoppedPoints(targets')
            /\ \A c \in CategorySet :
                  stats'[c] = stats[c] + JustPoppedOfType(targets', c)
          ]_vars

\* C23 witness: a bauble popped on the first tick was kept through a tick of
\* 0.3 s and removed by the next one; the 5 points of the pop are all that
\* was scored
C23_Witness ==
    /\ state = "playing" /\ round_ticks = 3 /\ game_timer = RoundTime - 16
    /\ targets = <<>>
    /\ score = 5 /\ stats = [ZeroStats EXCEPT !["bauble"] = 1]

\* C25: a tick with no cached player pops nothing and leaves score and stats
\* alone; a target is popped only with a present hand in range of it; while
\* the camera is not ready nobody is detected and the score is 0; and the
\* round runs from COUNTDOWN to RESULTS all the same.
C25_NoPlayersNoPops ==
    /\ [](~camera_ready => cached_players = <<>> /\ score = 0)
    /\ [][ PlayingTick =>
            /\ cached_players' = <<>> =>
                  /\ score' = score /\ stats' = stats
                  /\ \A j \in 1..Len(targets') : ~JustPopped(targets'[j])
            /\ \A j \in 1..Len(targets') :
                  JustPopped(targets'[j]) =>
                     \E hand \in HandsOf(cached_players') :
                        InPopRange(hand, targets'[j])
          ]_vars
    /\ (state = "countdown") ~> (state = "results")

\* C25 witness: a round played without a camera ended with score 0, live
\* targets still on screen
C25_Witness ==
    /\ state = "results" /\ ~camera_ready /\ cached_players = <<>>
    /\ round_ticks = 3 /\ score = 0 /\ stats = ZeroStats
    /\ \E i \in 1..Len(targets) : ~targets[i].popped

Abs(v) == IF v < 0 THEN -v ELSE v

\* C30: after the _update_targets of a tick every target it moved (the
\* non-popped ones, and those popped right after it) lies within the wall
\* margin of the current play area; a target that crossed a wall has the
\* matching velocity component negated and its position clamped to the
\* wall, any other keeps both, so |vx| and |vy| never change.
C30_TargetsStayInsideWalls ==
    [][ (PlayingTick /\ width' >= 2 * WallMargin /\ height' >= 2 * WallMargin) =>
          /\ \A j \in 1..Len(targets') :
                (~targets'[j].popped \/ JustPopped(targets'[j])) =>
                    /\ WallMargin <= targets'[j].x
                    /\ targets'[j].x <= width' - WallMargin
                    /\ WallMargin <= targets'[j].y
                    /\ targets'[j].y <= height' - WallMargin
          /\ \A i \in 1..Len(targets), j \in 1..Len(targets') :
                targets'[j].id = targets[i].id =>
                    /\ Abs(targets'[j].vx) = Abs(targets[i].vx)
                    /\ Abs(targets'[j].vy) = Abs(targets[i].vy)
                    /\ ~targets[i].popped =>
                          LET x1 == targets[i].x + (targets[i].vx * TickDt) \div TicksPerSecond
                              y1 == targets[i].y + (targets[i].vy * TickDt) \div TicksPerSecond
                              bx == x1 < WallMargin \/ x1 > width' - WallMargin
                              by == y1 < WallMargin \/ y1 > height' - WallMargin
                          IN  /\ targets'[j].vx = IF bx THEN -targets[i].vx
                                                  ELSE targets[i].vx
                              /\ targets'[j].vy = IF by THEN -targets[i].vy
                                                  ELSE targets[i].vy
                              /\ ~bx => targets'[j].x = x1
                              /\ ~by => targets'[j].y = y1
                              /\ (bx /\ x1 < WallMargin) => targets'[j].x = WallMargin
                              /\ (bx /\ x1 > width' - WallMargin) =>
                                    targets'[j].x = width' - WallMargin
                              /\ (by /\ y1 < WallMargin) => targets'[j].y = WallMargin
                              /\ (by /\ y1 > height' - WallMargin) =>
                                    targets'[j].y = height' - WallMargin
      ]_vars

\* C30 witness: in the small window a grinch has bounced off the bottom wall
\* and then off the top wall, where it now sits, heading down again
C30_Witness ==
    /\ state = "playing" /\ width = 200 /\ height = 160
    /\ \E i \in 1..Len(targets) :
          /\ targets[i].target_type = "grinch" /\ ~targets[i].popped
          /\ targets[i].y = WallMargin /\ targets[i].vy = 120
          /\ targets[i].lifetime = 10

\* C32: whatever size the window is resized to, _spawn_target does not fail
\* (no exception leaves the loop), and a target that does not move is, on
\* the tick it was spawned, at 80 <= x <= width-80 and 80 <= y <= height-80.
C32_SpawnNeverFails ==
    /\ [](running # "error")
    /\ [][ PlayingTick =>
            \A j \in NewOfType("bauble") :
               /\ SpawnMargin <= targets'[j].x
               /\ targets'[j].x <= width' - SpawnMargin
               /\ SpawnMargin <= targets'[j].y
               /\ targets'[j].y <= height' - SpawnMargin ]_vars

\* C34: the score is always the sum of the per-category breakdown:
\* 5 per bauble, 50 per elf, 100 per santa, -10 per grinch popped.
C34_ScoreMatchesBreakdown ==
    score = 5 * stats["bauble"] + 50 * stats["elf"]
            + 100 * stats["santa"] - 10 * stats["grinch"]

\* C34 witness: a round in which baubles and a grinch were popped
C34_Witness ==
    /\ state = "playing"
    /\ stats["grinch"] = 1 /\ stats["bauble"] = 1
    /\ score = -5

\* ------------------------------------------------------------------------
\* Properties of the round state machine
\* ------------------------------------------------------------------------
\* C14: ESC in TITLE, COUNTDOWN, PLAYING or RESULTS keeps the loop running,
\* returns to MENU and leaves the engine cleared: no live targets, and score,
\* round timer, countdown timer and spawn timers at their initial values.
C14_EscapeClearsRound ==
    [][ (state \in {"title", "countdown", "playing", "results"}
            /\ HandleKeydown("ESCAPE")) =>
            /\ running' = "run"
            /\ state' = "menu"
            /\ targets' = <<>>
            /\ score' = 0
            /\ game_timer' = RoundTime
            /\ countdown_timer' = CountdownTime
            /\ spawn_timers' = ZeroStats
      ]_vars

\* C15: in RESULTS, SPACE or RETURN takes the state machine to COUNTDOWN.
C15_PlayAgainStartsCountdown ==
    [][ (state = "results" /\ HandleKeydown("SPACE")) => state' = "countdown" ]_vars

\* C16: on entering RESULTS the high score of the current theme becomes the
\* maximum of its old value and the final score, so it is >= score while in
\* RESULTS; no step lowers a high score, and the high scores change on no
\* other step and for no other theme.
C16_HighScoreIsMax ==
    /\ [](state = "results" => high_scores[theme] >= score)
    /\ [][ /\ \A t \in DOMAIN high_scores : high_scores'[t] >= high_scores[t]
           /\ (state # "results" /\ state' = "results") =>
                 high_scores' =
                    [high_scores EXCEPT ![theme] = Max(high_scores[theme], score')]
           /\ ~(state # "results" /\ state' = "results") =>
                 high_scores' = high_scores
         ]_vars

\* C16 witness: a second round of the "chanukkah" theme ended with a score
\* below the theme's high score, which it left in place
C16_Witness ==
    /\ state = "results" /\ theme = "chanukkah"
    /\ score = 0 /\ high_scores["chanukkah"] = 5 /\ high_scores["christmas"] = 0

\* C17: in PLAYING every tick lowers game_timer by its dt, the tick that
\* brings it to 0 or below ends the round in RESULTS whatever the targets
\* are, no earlier tick does, and a round that is being played reaches
\* RESULTS.
C17_RoundTimerEndsRound ==
    /\ [](state = "playing" => game_timer > 0)
    /\ [][ state = "playing" =>
             /\ state' \in {"playing", "results"}
             /\ round_ticks' = round_ticks + 1 =>
                   \E d \in PlayFrames :
                      IF game_timer - d <= 0
                      THEN state' = "results" /\ game_timer' = 0
                      ELSE state' = "playing" /\ game_timer' = game_timer - d
         ]_vars
    /\ (state = "playing") ~> (state = "results")

\* C17 witness: the round ended on its third tick with a target still live
C17_Witness ==
    /\ state = "results" /\ game_timer = 0 /\ round_ticks = 3
    /\ \E i \in 1..Len(targets) : ~targets[i].popped /\ targets[i].lifetime > 0

\* C28: the countdown starts at 3.0 and is positive while the state is
\* COUNTDOWN; PLAYING is entered only from COUNTDOWN, by the tick that takes
\* the countdown to 0 or below, and that tick always enters it; PLAYING is
\* left only to RESULTS, with the round timer at 0, or to MENU by ESC. So
\* after PLAYING is left it is not entered again except through COUNTDOWN.
C28_PlayingOnlyThroughCountdown ==
    /\ [](state = "countdown" => countdown_timer > 0 /\ countdown_timer <= CountdownTime)
    /\ [][ /\ (state # "countdown" /\ state' = "countdown") =>
                 countdown_timer' = CountdownTime
           /\ (state # "playing" /\ state' = "playing") =>
                 state = "countdown" /\ countdown_timer' <= 0
           /\ (state = "countdown" /\ countdown_timer' <= 0) => state' = "playing"
           /\ (state = "playing" /\ state' # "playing") =>
                 \/ state' = "results" /\ game_timer' = 0
                 \/ state' = "menu" /\ HandleKeydown("ESCAPE")
         ]_vars

\* C28 witness: a second round begins, out of a countdown, after a first
\* round that ended in RESULTS with 5 points
C28_Witness ==
    /\ state = "playing" /\ round_ticks = 0 /\ countdown_timer = 0
    /\ game_timer = RoundTime /\ score = 0
    /\ high_scores["christmas"] = 5

\* the fields of the popper engine
EngineFields == <<targets, score, stats, spawn_timers, game_timer>>

\* C29: a frame (_update) in MENU, TITLE or RESULTS leaves targets, score,
\* stats, spawn timers and game_timer unchanged; a frame in COUNTDOWN leaves
\* them unchanged too, unless the countdown expires, and then it sets them
\* to the values of a new round; no other step outside PLAYING touches them.
C29_StateGatesEngine ==
    [][ /\ (frame_count' # frame_count /\ state \in {"menu", "title", "results"}) =>
              /\ EngineFields' = EngineFields
              /\ state' = state
        /\ (frame_count' # frame_count /\ state = "countdown") =>
              IF state' = "playing"
              THEN /\ targets' = <<>> /\ score' = 0 /\ stats' = ZeroStats
                   /\ spawn_timers' = ZeroStats /\ game_timer' = RoundTime
              ELSE EngineFields' = EngineFields
        /\ EngineFields' # EngineFields => state \in {"countdown", "playing"}
      ]_vars

\* C29 witness: two frames into the countdown of a second round, the engine
\* still holds what the first round left: its score, a popped target, the
\* round timer at 0
C29_Witness ==
    /\ state = "countdown" /\ countdown_timer = CountdownTime - 20
    /\ score = 5 /\ game_timer = 0
    /\ \E i \in 1..Len(targets) : targets[i].popped

\* C35: every entry into PLAYING starts a clean round: no live target,
\* score 0, all stats 0, all spawn timers 0, game_timer 60, whatever the
\* rounds before left behind and however they ended.
C35_RoundStartsClean ==
    /\ []((state = "playing" /\ round_ticks = 0) =>
             /\ targets = <<>> /\ score = 0 /\ game_timer = RoundTime
             /\ \A c \in CategorySet : stats[c] = 0 /\ spawn_timers[c] = 0)
    /\ [][ (state # "playing" /\ state' = "playing") =>
             /\ targets' = <<>> /\ score' = 0 /\ game_timer' = RoundTime
             /\ \A c \in CategorySet : stats'[c] = 0 /\ spawn_timers'[c] = 0
             /\ round_ticks' = 0 ]_vars

\* C35 witness: a round of the "chanukkah" theme begins clean after a round
\* of the "christmas" theme that scored 5 and was left through RESULTS and ESC
C35_Witness ==
    /\ state = "playing" /\ round_ticks = 0 /\ theme = "chanukkah"
    /\ high_scores["christmas"] = 5 /\ high_scores["chanukkah"] = 0
    /\ targets = <<>> /\ score = 0 /\ stats = ZeroStats

\* ------------------------------------------------------------------------
\* Properties of check_hand_hit
\* ------------------------------------------------------------------------
\* squared distance between the probed hand and target, both present
ProbeDistSq ==
    (probe_hand[1] - probe_target[1]) * (probe_hand[1] - probe_target[1])
    + (probe_hand[2] - probe_target[2]) * (probe_hand[2] - probe_target[2])

\* C11: check_hand_hit returns a boolean, true if and only if the hand and
\* the target are both present and at distance <= hit_radius; with an absent
\* hand it returns false.
C11_HandHitIffWithinRadius ==
    probe_result # <<>> =>
        /\ probe_result[1] \in BOOLEAN
        /\ probe_result[1] <=>
              (/\ probe_hand # None
               /\ probe_target # None
               /\ ProbeDistSq <= HitRadius * HitRadius)
        /\ probe_hand = None => probe_result[1] = FALSE

\* C11 witness: a hand exactly hit_radius away from the target is a hit
C11_Witness ==
    /\ probe_hand # None /\ probe_target # None
    /\ ProbeDistSq = HitRadius * HitRadius
    /\ probe_result = <<TRUE>>

=============================================================================
